---------------------------- MODULE Spec2Model ----------------------------
(***************************************************************************)
(* A model of src/main.py, the game-news digest job: the KST reporting     *)
(* window, the RSS collection loop (fetch_track), the publisher-link       *)
(* resolver with finalize_items, the digest formatter/chunker              *)
(* (build_messages) and the control flow of main.                          *)
(*                                                                         *)
(* Conventions.                                                            *)
(*  - A datetime is an integer: seconds since 00:00:00 KST of day 0; day 0  *)
(*    is a Monday, so weekday(d) = d % 7 as in Python's date.weekday().     *)
(*  - Python str values are TLA+ strings, handled character by character   *)
(*    (Len, SubSeq, \o).  Module text is ASCII: Hangul words of the source  *)
(*    are written in lowercase romanisation (넥슨 = "nekseun"); Hangul has   *)
(*    no case, and neither has the romanisation under Lower.  Fixed        *)
(*    template lines of the digest keep the source's character count, one  *)
(*    ASCII character standing for each non-ASCII one.                     *)
(*  - None is the string "None" where a value may be absent.               *)
(***************************************************************************)
EXTENDS Integers, Sequences, FiniteSets, TLC

VARIABLES
    \* compute_window_kst
    now_kst,            \* [day, sod]: datetime.now(KST)
    holidays_lib,       \* TRUE iff the optional holidays package was imported
    kr_holidays,        \* the dates the package reports as holidays
    window,             \* [start_dt, end_dt, prev_business] once w_pc = "done"
    w_pc,
    \* fetch_track
    ft_pc,              \* "kw": at the for over keywords; "entries": at the
                        \* for over a feed's entries; "body": in its body
    track, keywords, max_entries_per_feed,      \* parameters of the call
    kw_i,               \* keywords[1..kw_i] are done
    feed_ok,            \* the last GET returned a feed (no HTTP error)
    feed_len,           \* len(feed.entries[:max_entries_per_feed])
    pos,                \* entries of the current feed taken by the loop
    e,                  \* the loop variable: the entry taken last
    found,              \* the dict sid -> item, in insertion order
    ft_stats,
    ft_items,           \* the returned list
    \* PublisherResolver + finalize_items (main, lines 620-622)
    fin_pc,             \* the pass of finalize_items: "general", "nexon", "done"
    raw,                \* general_raw and nexon_raw
    budget,             \* the budget of the pass
    idx,                \* items[1..idx] of the pass are done
    out,                \* the list "out" of each pass
    used,
    fin_stats,          \* the statistics of each pass
    final,              \* general_final and nexon_final
    cache,              \* resolver.cache: google link -> publisher url or None
    requests,           \* GET requests the resolver issued, by google link
    returned,           \* by google link resolve was called with: the value
                        \* of its last return and the number of its calls
    \* main
    m_pc,               \* where main is
    SLACK_WEBHOOK_URL,  \* os.environ.get("SLACK_WEBHOOK_URL")
    net,                \* requests issued so far: feed GETs, resolver GETs, POSTs
    general_n, nexon_n, \* len(general_raw), len(nexon_raw)
    messages_n, sent,   \* len(messages), messages sent
    \* build_messages
    bm_pc,              \* where build_messages is
    label, general, nexon, bm_stats,   \* its arguments
    nexon_emitted,      \* nexon_sorted[:NEXON_SEND_LIMIT]
    full, lines,        \* full and full.splitlines(True)
    li,                 \* lines[1..li] are done
    chunk, messages

windowVars == <<now_kst, holidays_lib, kr_holidays, window, w_pc>>
fetchVars  == <<ft_pc, track, keywords, max_entries_per_feed, kw_i, feed_ok,
                feed_len, pos, e, found, ft_stats, ft_items>>
finVars    == <<fin_pc, raw, budget, idx, out, used, fin_stats, final, cache, requests,
               returned>>
mainVars   == <<m_pc, SLACK_WEBHOOK_URL, net, general_n, nexon_n, messages_n, sent>>
digestVars == <<bm_pc, label, general, nexon, bm_stats, nexon_emitted, full, lines, li,
                chunk, messages>>
vars == <<windowVars, fetchVars, finVars, mainVars, digestVars>>

None == "None"

-----------------------------------------------------------------------------
(* Bounds of the model (not program constants).                            *)

\* kr_holidays ranges over the subsets of the MaxHolidaySpan days before the
\* run day, and the run day itself.
MaxHolidaySpan == 4

\* fetch_track is called with the first MaxKeywords keywords, and a feed
\* holds at most MaxFeedEntries entries.
MaxKeywords == 2
MaxFeedEntries == 2

\* The lists main hands to finalize_items hold at most MaxGeneralRaw and
\* MaxNexonRaw candidates.
MaxGeneralRaw == 2
MaxNexonRaw == 1

\* In a run of main, fetch_track returns at most MaxRawLen candidates and
\* build_messages at most MaxMessages messages.
MaxRawLen == 11
MaxMessages == 2

\* build_messages is given at most MaxGeneral general and MaxNexon topic
\* articles (one more than it sends).
MaxGeneral == 51
MaxNexon == 6

-----------------------------------------------------------------------------
(* Parts of a run that a specification does not exercise stay idle.        *)

IdleWindow ==
    /\ w_pc = "idle" /\ now_kst = None /\ holidays_lib = FALSE
    /\ kr_holidays = {} /\ window = None

IdleFetch ==
    /\ ft_pc = "idle" /\ track = None /\ keywords = <<>>
    /\ max_entries_per_feed = 0 /\ kw_i = 0 /\ feed_ok = FALSE
    /\ feed_len = 0 /\ pos = 0 /\ e = None /\ found = <<>>
    /\ ft_stats = None /\ ft_items = <<>>

IdleFinalize ==
    /\ fin_pc = "idle" /\ raw = None /\ budget = 0 /\ idx = 0 /\ out = None
    /\ used = 0 /\ fin_stats = None /\ final = None /\ cache = <<>> /\ requests = <<>>
    /\ returned = <<>>

IdleMain ==
    /\ m_pc = "idle" /\ SLACK_WEBHOOK_URL = None /\ net = None
    /\ general_n = 0 /\ nexon_n = 0 /\ messages_n = 0 /\ sent = 0

IdleDigest ==
    /\ bm_pc = "idle" /\ label = "" /\ general = <<>> /\ nexon = <<>> /\ bm_stats = None
    /\ nexon_emitted = <<>> /\ full = "" /\ lines = <<>> /\ li = 0
    /\ chunk = "" /\ messages = <<>>

-----------------------------------------------------------------------------
(* Datetimes.                                                              *)

DAY == 24 * 3600

\* datetime.combine(d, dtime(h, m, s), tzinfo=KST)
Combine(d, h, m, s) == d * DAY + h * 3600 + m * 60 + s

DateOf(t) == t \div DAY

Weekday(d) == d % 7

SEND_HOUR == 10

\* END_CUTOFF = dtime(9, 59, 59), as seconds of the day
END_CUTOFF == 9 * 3600 + 59 * 60 + 59

-----------------------------------------------------------------------------
(* compute_window_kst                                                      *)

\* The mutant takes Saturday for a business day (>= 6 for >= 5).
is_business_day_saturday(d, lib, hols) ==
    IF Weekday(d) >= 6 THEN FALSE
    ELSE IF lib /\ d \in hols THEN FALSE
    ELSE TRUE

is_business_day(d, lib, hols) ==
    IF Weekday(d) >= 5 THEN FALSE
    ELSE IF lib /\ d \in hols THEN FALSE
    ELSE TRUE

RECURSIVE PrevBusinessFrom(_, _, _)
\* d = today - 1; while not is_business_day(d): d -= 1
PrevBusinessFrom(d, lib, hols) ==
    IF is_business_day(d, lib, hols) THEN d
    ELSE PrevBusinessFrom(d - 1, lib, hols)

\* line 264: now_kst.weekday() == 0 and prev_business.weekday() == 4
WidenToMidnight(today, prev_business) ==
    Weekday(today) = 0 /\ Weekday(prev_business) = 4

compute_window_kst(now, lib, hols) ==
    LET today == now.day
        end_dt == today * DAY + END_CUTOFF
        prev_business == PrevBusinessFrom(today - 1, lib, hols)
        start_dt == IF WidenToMidnight(today, prev_business)
                    THEN Combine(prev_business, 0, 0, 0)
                    ELSE Combine(prev_business, SEND_HOUR, 0, 0)
    IN  [start_dt |-> start_dt, end_dt |-> end_dt, prev_business |-> prev_business]

\* The run days: one full week, late enough that the walk back stays >= 0.
RunDays == (MaxHolidaySpan + 3) .. (MaxHolidaySpan + 9)

\* Times of the day at which the job may start.
RunTimes == {0, END_CUTOFF, SEND_HOUR * 3600, DAY - 1}

InitWindow ==
    /\ now_kst \in [day : RunDays, sod : RunTimes]
    /\ holidays_lib \in BOOLEAN
    /\ kr_holidays \in SUBSET ((now_kst.day - MaxHolidaySpan) .. now_kst.day)
    /\ window = None
    /\ w_pc = "start"
    /\ IdleFetch /\ IdleFinalize /\ IdleMain /\ IdleDigest

ComputeWindow ==
    /\ w_pc = "start"
    /\ w_pc' = "done"
    /\ window' = compute_window_kst(now_kst, holidays_lib, kr_holidays)
    /\ UNCHANGED <<now_kst, holidays_lib, kr_holidays>>
    /\ UNCHANGED <<fetchVars, finVars, mainVars, digestVars>>

NextWindow == ComputeWindow

SpecWindow == InitWindow /\ [][NextWindow]_vars

-----------------------------------------------------------------------------
(* C4: with no holidays in play, the window ends today at 09:59:59; on a   *)
(* Monday it starts on the preceding Friday at 00:00:00, on Tuesday to     *)
(* Friday on the preceding calendar day at 10:00:00.                       *)

NoHolidaysInPlay == ~holidays_lib \/ kr_holidays = {}

C4_WindowNoHolidays ==
    (w_pc = "done" /\ NoHolidaysInPlay) =>
        /\ window.end_dt = Combine(now_kst.day, 9, 59, 59)
        /\ Weekday(now_kst.day) = 0 =>
               window.start_dt = Combine(now_kst.day - 3, 0, 0, 0)
        /\ Weekday(now_kst.day) \in 1..4 =>
               window.start_dt = Combine(now_kst.day - 1, 10, 0, 0)

C4_Witness ==
    /\ w_pc = "done" /\ NoHolidaysInPlay
    /\ Weekday(now_kst.day) = 0
    /\ window.start_dt = Combine(now_kst.day - 3, 0, 0, 0)

(* C5: for any holiday set, the window starts at prev_business 00:00:00    *)
(* when today is the first business day after a gap of more than one       *)
(* non-business day, and at prev_business 10:00:00 otherwise.              *)

\* The non-business days strictly between prev_business and today.
GapDays == now_kst.day - window.prev_business - 1

FirstBusinessDayAfterLongGap ==
    /\ is_business_day(now_kst.day, holidays_lib, kr_holidays)
    /\ GapDays > 1

C5_GapRule ==
    w_pc = "done" =>
        window.start_dt =
            IF FirstBusinessDayAfterLongGap
            THEN Combine(window.prev_business, 0, 0, 0)
            ELSE Combine(window.prev_business, 10, 0, 0)

-----------------------------------------------------------------------------
(* Strings: Python's str operations used by the source, on TLA+ strings.   *)

UPPER == "ABCDEFGHIJKLMNOPQRSTUVWXYZ"
LOWER == "abcdefghijklmnopqrstuvwxyz"

Char(s, i) == SubSeq(s, i, i)

LowerOf == [c \in {Char(UPPER, i) : i \in 1..Len(UPPER)} |->
               Char(LOWER, CHOOSE i \in 1..Len(UPPER) : Char(UPPER, i) = c)]

LowerChar(c) == IF c \in DOMAIN LowerOf THEN LowerOf[c] ELSE c

RECURSIVE LowerBetween(_, _, _)
\* the characters lo..hi of s in lower case (by halves: the depth stays small)
LowerBetween(s, lo, hi) ==
    IF lo > hi THEN ""
    ELSE IF lo = hi THEN LowerChar(Char(s, lo))
    ELSE LET mid == (lo + hi) \div 2
         IN  LowerBetween(s, lo, mid) \o LowerBetween(s, mid + 1, hi)

\* str.lower()
Lower(s) == LowerBetween(s, 1, Len(s))

\* t in s
Contains(s, t) ==
    \E i \in 1..(Len(s) - Len(t) + 1) : SubSeq(s, i, i + Len(t) - 1) = t

\* s.endswith(t)
EndsWith(s, t) ==
    Len(s) >= Len(t) /\ SubSeq(s, Len(s) - Len(t) + 1, Len(s)) = t

\* s.startswith(t)
StartsWith(s, t) == Len(s) >= Len(t) /\ SubSeq(s, 1, Len(t)) = t

\* The whitespace the inputs of the model use (\s, str.strip, str.isspace).
IsSpace(c) == c \in {" ", "\t", "\n", "\r"}

NonSpaceAt(s) == {i \in 1..Len(s) : ~IsSpace(Char(s, i))}

Min(S) == CHOOSE x \in S : \A y \in S : x <= y
Max(S) == CHOOSE x \in S : \A y \in S : x >= y

\* str.strip()
Strip(s) ==
    IF NonSpaceAt(s) = {} THEN ""
    ELSE SubSeq(s, Min(NonSpaceAt(s)), Max(NonSpaceAt(s)))

RECURSIVE CollapseBetween(_, _, _)
\* re.sub(r"\s+", " ", s) on the characters lo..hi: a run of whitespace
\* becomes one blank, put where the run starts
CollapseBetween(s, lo, hi) ==
    IF lo > hi THEN ""
    ELSE IF lo = hi
         THEN IF ~IsSpace(Char(s, lo)) THEN Char(s, lo)
              ELSE IF lo > 1 /\ IsSpace(Char(s, lo - 1)) THEN "" ELSE " "
    ELSE LET mid == (lo + hi) \div 2
         IN  CollapseBetween(s, lo, mid) \o CollapseBetween(s, mid + 1, hi)

_clean_text(s) == CollapseBetween(Strip(s), 1, Len(Strip(s)))

RECURSIVE StripHtmlFrom(_, _)
\* re.sub(r"<[^>]+>", "", s): a tag is "<", one or more non-">", then ">"
StripHtmlFrom(s, i) ==
    IF i > Len(s) THEN ""
    ELSE LET closers == {j \in (i + 1)..Len(s) : Char(s, j) = ">"}
         IN  IF Char(s, i) = "<" /\ closers # {} /\ Min(closers) > i + 1
             THEN StripHtmlFrom(s, Min(closers) + 1)
             ELSE Char(s, i) \o StripHtmlFrom(s, i + 1)

_strip_html(s) == StripHtmlFrom(s, 1)

\* The ellipsis character of _truncate, one character long.
ELLIPSIS == "~"

_truncate(s, n) ==
    IF Len(s) <= n THEN s
    ELSE SubSeq(s, 1, IF n - 1 > 0 THEN n - 1 ELSE 0) \o ELLIPSIS

RECURSIVE Rep(_, _)
\* s * n
Rep(s, n) ==
    IF n = 0 THEN ""
    ELSE LET h == Rep(s, n \div 2)
         IN  IF n % 2 = 0 THEN h \o h ELSE h \o h \o s

\* hashlib.sha1((title + "||" + link).encode("utf-8")).hexdigest()[:16]: the
\* digest is taken to be injective on the string it hashes, so the id is
\* modelled by that string.
_stable_id(title, link) == title \o "||" \o link

DIGITS == "0123456789"

RECURSIVE Str(_)
\* str(n) of an integer n >= 0
Str(n) ==
    IF n < 10 THEN Char(DIGITS, n + 1)
    ELSE Str(n \div 10) \o Char(DIGITS, (n % 10) + 1)

\* "%02d"
Pad2(n) == IF n < 10 THEN "0" \o Str(n) ELSE Str(n)

\* strftime("%Y-%m-%d %H:%M") of an instant: day 0 is taken to be Monday
\* 2024-01-01, and the instants of the model lie in that January.
strftime(t) ==
    "2024-01-" \o Pad2(DateOf(t) + 1) \o " "
    \o Pad2((t % DAY) \div 3600) \o ":" \o Pad2((t % 3600) \div 60)

\* line 267
window_label(start_dt, end_dt) ==
    strftime(start_dt) \o " ~ " \o strftime(end_dt) \o " (KST)"

-----------------------------------------------------------------------------
(* Configuration (lines 40-113).                                           *)

TARGET_SITES == <<"inven.co.kr", "gamemeca.com", "thisisgame.com",
                  "gametoc.co.kr", "gameple.co.kr", "zdnet.co.kr", "ddaily.co.kr">>

PRIMARY_KEYWORDS == <<"sinjak", "seonggwa", "hojae", "akjae", "riseukeu",
                      "jeongchaek", "eopdeiteu", "chulsi", "maechul", "sunwi",
                      "sosong", "gyuje", "CBT", "OBT", "insu", "tuja", "M&A">>

KEYWORD_BATCH_PRIMARY == 10
KEYWORD_BATCH_FALLBACK == 18

MAX_ENTRIES_PER_FEED == 30
MAX_ENTRIES_PER_NEXON_FEED == 20

TITLE_MAX == 120
SNIPPET_MAX == 180

NON_ARTICLE_TITLE_HINTS ==
    <<"gongryak", "tip", "nohau", "jilmun", "q&a", "Q&A", "injeung", "hugi",
      "seusyat", "seukeurinsyat", "gildeu", "gildeumojip", "gildeu mojip",
      "mojip", "keullaen", "keullaenmojip", "pati", "pat", "gojeongpat",
      "georae", "nanum", "panmae", "samnida", "beogeujebo", "geonui", "toron">>

NEXON_TERMS == <<"nekseun", "nexon", "nekseunkoria", "nekseungeimjeu",
                 "nekseunneteuwokseu", "neopeul">>

_GOOGLE_HOSTS == {"news.google.com", "www.google.com", "google.com"}

Range(f) == {f[i] : i \in DOMAIN f}

\* s[:n] of a list
Take(seq, n) == SubSeq(seq, 1, IF Len(seq) < n THEN Len(seq) ELSE n)

_looks_like_non_article(title, snippet) ==
    LET blob == Lower(title \o " " \o snippet)
    IN  \E h \in Range(NON_ARTICLE_TITLE_HINTS) : Contains(blob, Lower(h))

-----------------------------------------------------------------------------
(* Feed entries.  A date string (published, updated) is absent, garbage    *)
(* that parsedate_to_datetime rejects, or a wall-clock time with or        *)
(* without a UTC offset; a date tuple (published_parsed, updated_parsed)   *)
(* is absent, invalid for the datetime constructor, or a wall-clock time.          *)

KST_OFFSET == 9 * 3600

NoDate == [kind |-> "absent", wall |-> 0, off |-> 0]
Garbage == [kind |-> "garbage", wall |-> 0, off |-> 0]

\* The date string that reads as the KST instant t, written with offset off.
Aware(t, off) == [kind |-> "aware", wall |-> t - KST_OFFSET + off, off |-> off]
\* The date string without offset whose wall clock is UTC for the instant t.
Naive(t) == [kind |-> "naive", wall |-> t - KST_OFFSET, off |-> 0]
\* The date tuple (UTC wall clock) for the KST instant t.
Tuple(t) == [kind |-> "tuple", wall |-> t - KST_OFFSET, off |-> 0]

\* lines 215-218: parsedate_to_datetime(s); a naive result is taken as UTC;
\* astimezone(KST).  The result is the instant on the KST clock.
parse_date_string(d) ==
    IF d.kind = "aware" THEN d.wall - d.off + KST_OFFSET
    ELSE d.wall + KST_OFFSET

\* lines 226-227: datetime of t[:6], .replace(tzinfo=utc).astimezone(KST)
parse_date_tuple(d) == d.wall + KST_OFFSET

Unparsed == -1

\* lines 210-230; Unparsed stands for None.
parse_entry_datetime_kst(entry) ==
    IF entry.published.kind \in {"aware", "naive"}
    THEN parse_date_string(entry.published)
    ELSE IF entry.updated.kind \in {"aware", "naive"}
    THEN parse_date_string(entry.updated)
    ELSE IF entry.published_parsed.kind = "tuple"
    THEN parse_date_tuple(entry.published_parsed)
    ELSE IF entry.updated_parsed.kind = "tuple"
    THEN parse_date_tuple(entry.updated_parsed)
    ELSE Unparsed

-----------------------------------------------------------------------------
(* fetch_track (lines 393-486)                                             *)

GA == "https://news.google.com/rss/articles/A"
GB == "https://news.google.com/rss/articles/B"

Absent == [kind |-> "absent", wall |-> 0, off |-> 0]
Invalid == [kind |-> "invalid", wall |-> 0, off |-> 0]

\* What an entry carries besides its dates.
Text(title, link, summary) ==
    [malformed |-> FALSE, title |-> title, link |-> link, summary |-> summary,
     description |-> "", source_title |-> ""]

PlainText == Text("Nexon sinjak", GA, "")

Entry(text, dates) ==
    [text |-> text, published |-> dates[1], updated |-> dates[2],
     published_parsed |-> dates[3], updated_parsed |-> dates[4]]

\* The date fields an entry may carry, around the window [s, t].
AtStart(s, t)   == <<Aware(s, 0), NoDate, Absent, Absent>>
AtEnd(s, t)     == <<Aware(t, KST_OFFSET), NoDate, Absent, Absent>>
Undated(s, t)   == <<NoDate, NoDate, Absent, Absent>>
DateCases(s, t) ==
    { AtStart(s, t), AtEnd(s, t), Undated(s, t),
      <<Naive(t + 1), NoDate, Absent, Absent>>,
      <<Aware(s - 1, 0), NoDate, Absent, Absent>>,
      <<Naive(s - DAY - 1), NoDate, Absent, Absent>>,
      <<Garbage, Garbage, Invalid, Invalid>>,
      <<Garbage, Naive(s), Absent, Absent>>,
      <<NoDate, Garbage, Invalid, Tuple(t)>> }

\* The texts a feed may hold: titles in need of cleaning, too long, blank
\* or carrying a non-article hint; a link that is empty; a summary with
\* markup and a hint; a description in place of the summary, with a press
\* name; and an entry whose fields cannot be read as text (line 434 raises).
DupText == Text(" Nexon  sinjak\n", GA, "")
LongText == Text(Rep("a", TITLE_MAX + 1), GA, "")
BlankTitleText == Text("  ", GA, "")
HintTitleText == Text("gildeu mojip", GA, "")
NoLinkText == Text("Nexon sinjak", "", "")
HintSummaryText == Text("Nexon sinjak", GB, "<b>tip</b>")
DescriptionText ==
    [Text("Nexon chulsi", GA, "") EXCEPT !.description = "Nexon <i>sinjak</i>  chulsi",
                                         !.source_title = " Inven "]
MalformedText == [PlainText EXCEPT !.malformed = TRUE]

Texts == {PlainText, DupText, LongText, BlankTitleText, HintTitleText, NoLinkText,
          HintSummaryText, DescriptionText, MalformedText}

\* The entries a feed may hold, around the window [s, t].
Entries(s, t) ==
    { Entry(PlainText, d) : d \in DateCases(s, t) }
    \cup { Entry(x, AtStart(s, t)) : x \in {DupText, LongText, HintSummaryText, MalformedText} }
    \cup { Entry(x, Undated(s, t)) : x \in {BlankTitleText, HintTitleText, NoLinkText} }
    \cup { Entry(DescriptionText, AtEnd(s, t)) }

NoEntry == Entry(Text("", "", ""), <<NoDate, NoDate, Absent, Absent>>)

_press_guess(text) ==
    IF _clean_text(text.source_title) # "" THEN _clean_text(text.source_title)
    ELSE "NEWS"

\* Lines 434-445 and 462 on the text of an entry: the cleaned title, link and
\* snippet, the hint test and the press name.
CleanEntryText(x) ==
    LET title == _truncate(_clean_text(x.title), TITLE_MAX)
        snippet_raw == IF x.summary # "" THEN x.summary ELSE x.description
        snippet == _truncate(_clean_text(_strip_html(snippet_raw)), SNIPPET_MAX)
    IN  [title |-> title,
         google_link |-> _clean_text(x.link),
         snippet |-> snippet,
         hint |-> _looks_like_non_article(title, snippet),
         press |-> _press_guess(x)]

\* CleanEntryText over the texts of the model (it reads no state).
Cleaned == [x \in Texts \cup {NoEntry.text} |-> CleanEntryText(x)]

ZeroStats == [feeds_called |-> 0, entries_seen |-> 0, hint_drop |-> 0,
              no_date_drop |-> 0, too_old_drop |-> 0, window_drop |-> 0,
              added |-> 0]

Bump(stats, key) == [stats EXCEPT ![key] = @ + 1]

\* The mutant keeps only the lower bound of the window.
InWindowNoUpperBound(pub_kst, start_dt, end_dt) == ~(pub_kst < start_dt)

\* line 458, negated: the entry is inside the window
InWindow(pub_kst, start_dt, end_dt) == ~(pub_kst < start_dt \/ pub_kst > end_dt)

\* One pass of the body of "for e in feed.entries[...]" (lines 432-478) on
\* entry en under keyword kw: the dict and the statistics after it, and
\* whether the body raised.
EntryBody(en, kw, trk, fnd, stats, start_dt, end_dt) ==
    LET seen == Bump(stats, "entries_seen")
        c == Cleaned[en.text]
        title == c.title
        google_link == c.google_link
        snippet == c.snippet
        pub_kst == parse_entry_datetime_kst(en)
        hard_old_cutoff == start_dt - DAY
        sid == _stable_id(title, google_link)
        item == [sid |-> sid, track |-> trk, keyword |-> kw,
                 press |-> c.press, title |-> title,
                 google_link |-> google_link, link |-> None,
                 published_dt |-> pub_kst, published |-> strftime(pub_kst),
                 snippet |-> snippet]
        same(f, st) == [found |-> f, stats |-> st, raised |-> FALSE]
    IN  IF en.text.malformed THEN [found |-> fnd, stats |-> seen, raised |-> TRUE]
        ELSE IF title = "" THEN same(fnd, seen)
        ELSE IF google_link = "" THEN same(fnd, seen)
        ELSE IF c.hint THEN same(fnd, Bump(seen, "hint_drop"))
        ELSE IF pub_kst = Unparsed THEN same(fnd, Bump(seen, "no_date_drop"))
        ELSE IF pub_kst < hard_old_cutoff THEN same(fnd, Bump(seen, "too_old_drop"))
        ELSE IF ~InWindow(pub_kst, start_dt, end_dt)
             THEN same(fnd, Bump(seen, "window_drop"))
        ELSE IF \E i \in DOMAIN fnd : fnd[i].sid = sid THEN same(fnd, seen)
        ELSE same(Append(fnd, item), Bump(seen, "added"))

RECURSIVE InsertDesc(_, _)
\* x into a list sorted by published_dt descending, behind its equals
InsertDesc(sorted, x) ==
    IF sorted = <<>> THEN <<x>>
    ELSE IF Head(sorted).published_dt >= x.published_dt
         THEN <<Head(sorted)>> \o InsertDesc(Tail(sorted), x)
         ELSE <<x>> \o sorted

RECURSIVE SortByPublishedDesc(_)
\* sorted(items, key=lambda a: a["published_dt"], reverse=True): stable
SortByPublishedDesc(items) ==
    IF items = <<>> THEN <<>>
    ELSE InsertDesc(SortByPublishedDesc(SubSeq(items, 1, Len(items) - 1)),
                    items[Len(items)])

\* The calls of main: the general track and the topic track.
InitFetch ==
    /\ w_pc = "done"
    /\ now_kst = [day |-> MaxHolidaySpan + 4, sod |-> SEND_HOUR * 3600]
    /\ holidays_lib = FALSE /\ kr_holidays = {}
    /\ window = compute_window_kst(now_kst, holidays_lib, kr_holidays)
    /\ ft_pc = "kw"
    /\ \/ track = "general" /\ max_entries_per_feed = MAX_ENTRIES_PER_FEED
       \/ track = "nexon" /\ max_entries_per_feed = MAX_ENTRIES_PER_NEXON_FEED
    /\ keywords = Take(PRIMARY_KEYWORDS, MaxKeywords)
    /\ kw_i = 0 /\ feed_ok = FALSE /\ feed_len = 0 /\ pos = 0 /\ e = NoEntry
    /\ found = <<>> /\ ft_stats = ZeroStats /\ ft_items = <<>>
    /\ IdleFinalize /\ IdleMain /\ IdleDigest

\* lines 425-427 raise (the request fails or the status is an error);
\* lines 481-483 print the warning and go on with the next keyword.
GetFeedFails ==
    /\ ft_pc = "kw" /\ kw_i < Len(keywords)
    /\ kw_i' = kw_i + 1
    /\ feed_ok' = FALSE /\ feed_len' = 0 /\ pos' = 0
    /\ UNCHANGED <<ft_pc, track, keywords, max_entries_per_feed, e, found, ft_stats, ft_items>>
    /\ UNCHANGED <<windowVars, finVars, mainVars, digestVars>>

\* lines 426-431: the feed arrives with n entries, cut to max_entries_per_feed.
GetFeed ==
    /\ ft_pc = "kw" /\ kw_i < Len(keywords)
    /\ \E n \in 0..MaxFeedEntries :
           feed_len' = IF n < max_entries_per_feed THEN n ELSE max_entries_per_feed
    /\ feed_ok' = TRUE /\ pos' = 0
    /\ ft_stats' = Bump(ft_stats, "feeds_called")
    /\ ft_pc' = "entries"
    /\ UNCHANGED <<track, keywords, max_entries_per_feed, kw_i, e, found, ft_items>>
    /\ UNCHANGED <<windowVars, finVars, mainVars, digestVars>>

\* "for e in feed.entries[:max_entries_per_feed]" (line 431) takes the next
\* entry of the feed.
TakeEntry ==
    /\ ft_pc = "entries" /\ pos < feed_len
    /\ e' \in Entries(window.start_dt, window.end_dt)
    /\ pos' = pos + 1
    /\ ft_pc' = "body"
    /\ UNCHANGED <<track, keywords, max_entries_per_feed, kw_i, feed_ok, feed_len,
                   found, ft_stats, ft_items>>
    /\ UNCHANGED <<windowVars, finVars, mainVars, digestVars>>

\* The body of the loop on e (lines 432-478); when it raises, the handler of
\* lines 481-483 ends the feed and goes on with the next keyword.
ProcessEntry ==
    /\ ft_pc = "body"
    /\ LET r == EntryBody(e, keywords[kw_i + 1], track, found, ft_stats,
                          window.start_dt, window.end_dt)
       IN  /\ found' = r.found
           /\ ft_stats' = r.stats
           /\ IF r.raised
              THEN ft_pc' = "kw" /\ kw_i' = kw_i + 1
              ELSE ft_pc' = "entries" /\ UNCHANGED kw_i
    /\ UNCHANGED <<track, keywords, max_entries_per_feed, feed_ok, feed_len, pos,
                   e, ft_items>>
    /\ UNCHANGED <<windowVars, finVars, mainVars, digestVars>>

\* line 480: the entries are exhausted; _sleep(), then the next keyword.
EndFeed ==
    /\ ft_pc = "entries" /\ pos = feed_len
    /\ ft_pc' = "kw" /\ kw_i' = kw_i + 1
    /\ UNCHANGED <<track, keywords, max_entries_per_feed, feed_ok, feed_len, pos,
                   e, found, ft_stats, ft_items>>
    /\ UNCHANGED <<windowVars, finVars, mainVars, digestVars>>

\* lines 485-486
ReturnItems ==
    /\ ft_pc = "kw" /\ kw_i = Len(keywords)
    /\ ft_pc' = "done"
    /\ ft_items' = SortByPublishedDesc(found)
    /\ UNCHANGED <<track, keywords, max_entries_per_feed, kw_i, feed_ok, feed_len,
                   pos, e, found, ft_stats>>
    /\ UNCHANGED <<windowVars, finVars, mainVars, digestVars>>

NextFetch ==
    GetFeedFails \/ GetFeed \/ TakeEntry \/ ProcessEntry \/ EndFeed \/ ReturnItems

SpecFetch == InitFetch /\ [][NextFetch]_vars

-----------------------------------------------------------------------------
(* URLs (urllib.parse), on strings.                                        *)

\* s[i-1:j] of Python: the characters i..j that s has.
Slice(s, i, j) ==
    LET lo == IF i < 1 THEN 1 ELSE i
        hi == IF j > Len(s) THEN Len(s) ELSE j
    IN  IF lo > hi THEN "" ELSE SubSeq(s, lo, hi)

\* The least i >= from with t at s[i..], or 0.
IndexFrom(s, t, from) ==
    LET hits == {i \in from..(Len(s) - Len(t) + 1) : SubSeq(s, i, i + Len(t) - 1) = t}
    IN  IF hits = {} THEN 0 ELSE Min(hits)

\* The least i >= from with s[i] one of the characters cs, or Len(s) + 1.
FirstOf(s, cs, from) ==
    LET hits == {i \in from..Len(s) : Char(s, i) \in cs}
    IN  IF hits = {} THEN Len(s) + 1 ELSE Min(hits)

\* urlparse(url): netloc, path and query of "scheme://netloc/path?query#frag"
\* (a url without "://" has no netloc: all of it up to "?" is path).
urlparse(url) ==
    LET sep == IndexFrom(url, "://", 1)
        nl_from == IF sep = 0 THEN 1 ELSE sep + 3
        nl_to == IF sep = 0 THEN 0 ELSE FirstOf(url, {"/", "?", "#"}, nl_from) - 1
        p_from == IF sep = 0 THEN 1 ELSE nl_to + 1
        p_to == FirstOf(url, {"?", "#"}, p_from) - 1
        q_from == p_to + 2
        q_to == FirstOf(url, {"#"}, p_to + 1) - 1
    IN  [netloc |-> IF sep = 0 THEN "" ELSE SubSeq(url, nl_from, nl_to),
         path |-> SubSeq(url, p_from, p_to),
         query |-> IF p_to < Len(url) /\ Char(url, p_to + 1) = "?"
                   THEN SubSeq(url, q_from, q_to) ELSE ""]

\* key in parse_qs(query): some "&"-separated field is key=value with a
\* value that is not empty (parse_qs drops blank values).
InQs(key, query) ==
    \E i \in 1..Len(query) :
        /\ i = 1 \/ Char(query, i - 1) = "&"
        /\ Slice(query, i, i + Len(key)) = key \o "="
        /\ i + Len(key) + 1 <= Len(query)
        /\ Char(query, i + Len(key) + 1) # "&"

\* any(s in u for s in TARGET_SITES)
MentionsTargetSite(u) == \E site \in Range(TARGET_SITES) : Contains(u, site)

_is_google_url(url) ==
    LET h == Lower(urlparse(url).netloc)
    IN  h \in _GOOGLE_HOSTS \/ EndsWith(h, ".google.com")

\* lines 179-205
is_valid_article_url(url) ==
    IF url = "" THEN FALSE
    ELSE LET p == urlparse(url)
             host == Lower(p.netloc)
             path == Lower(p.path)
         IN  IF path \in {"", "/"} THEN FALSE
             ELSE IF EndsWith(host, "inven.co.kr")
                  THEN IF Contains(path, "/board/") THEN FALSE
                       ELSE IF StartsWith(path, "/webzine/news") /\ ~InQs("news", p.query)
                            THEN FALSE
                       ELSE IF InQs("keyword", p.query) /\ ~InQs("news", p.query)
                            THEN FALSE
                       ELSE TRUE
                  ELSE TRUE

\* lines 298-328
_score_candidate(u) ==
    LET p == urlparse(u)
        host == Lower(p.netloc)
        path == p.path
        inven == Contains(host, "inven.co.kr")
    IN  (IF MentionsTargetSite(u) THEN 10 ELSE 0)
        - (IF path \in {"", "/"} THEN 50 ELSE 0)
        - (IF Len(path) < 6 THEN 10 ELSE 0)
        - (IF inven /\ Contains(Lower(path), "/board/") THEN 80 ELSE 0)
        + (IF inven /\ Contains(Lower(path), "/webzine/news") /\ InQs("news", p.query)
           THEN 60 ELSE 0)
        - (IF inven /\ InQs("keyword", p.query) /\ ~InQs("news", p.query)
           THEN 60 ELSE 0)

\* The percent escapes the pages of the model use (urllib.parse.unquote).
HexOf == [h \in {"7C", "7c", "2F", "2f", "3A", "3a", "3F", "3f"} |->
            CASE h \in {"7C", "7c"} -> "|"
              [] h \in {"2F", "2f"} -> "/"
              [] h \in {"3A", "3a"} -> ":"
              [] h \in {"3F", "3f"} -> "?"]

EscapeAt(s, i) ==
    i >= 1 /\ i + 2 <= Len(s) /\ Char(s, i) = "%" /\ SubSeq(s, i + 1, i + 2) \in DOMAIN HexOf

RECURSIVE UnquoteBetween(_, _, _)
UnquoteBetween(s, lo, hi) ==
    IF lo > hi THEN ""
    ELSE IF lo = hi
         THEN IF EscapeAt(s, lo) THEN HexOf[SubSeq(s, lo + 1, lo + 2)]
              ELSE IF EscapeAt(s, lo - 1) \/ EscapeAt(s, lo - 2) THEN ""
              ELSE Char(s, lo)
    ELSE LET mid == (lo + hi) \div 2
         IN  UnquoteBetween(s, lo, mid) \o UnquoteBetween(s, mid + 1, hi)

unquote(s) == UnquoteBetween(s, 1, Len(s))

\* _URL_RE = https?://[^\s"'<>]+ , ignoring case
UrlDelims == {" ", "\t", "\n", "\r", "\"", "'", "<", ">"}

SchemeAt(text, i) ==
    \E sch \in {"http://", "https://"} :
        /\ Lower(Slice(text, i, i + Len(sch) - 1)) = sch
        /\ i + Len(sch) <= Len(text)
        /\ Char(text, i + Len(sch)) \notin UrlDelims

\* A match starts where a scheme starts and no earlier match runs over it: a
\* match runs to the end of its stretch of characters outside UrlDelims.
MatchStarts(text) ==
    {i \in 1..Len(text) :
        /\ SchemeAt(text, i)
        /\ \A k \in 1..(i - 1) :
               SchemeAt(text, k) => \E j \in k..i : Char(text, j) \in UrlDelims}

RECURSIVE SortedSeq(_)
\* a finite set of numbers, ascending
SortedSeq(S) == IF S = {} THEN <<>> ELSE <<Min(S)>> \o SortedSeq(S \ {Min(S)})

\* _URL_RE.findall(text)
findall_urls(text) ==
    LET starts == SortedSeq(MatchStarts(text))
    IN  [k \in 1..Len(starts) |->
            SubSeq(text, starts[k], FirstOf(text, UrlDelims, starts[k]) - 1)]

\* u.split("&amp;")[0]
BeforeAmp(u) ==
    IF IndexFrom(u, "&amp;", 1) = 0 THEN u ELSE SubSeq(u, 1, IndexFrom(u, "&amp;", 1) - 1)

\* lines 285-296
_collect_target_urls(text) ==
    LET urls == findall_urls(text)
        cleaned == [k \in 1..Len(urls) |-> unquote(BeforeAmp(urls[k]))]
    IN  SelectSeq(cleaned, MentionsTargetSite)

-----------------------------------------------------------------------------
(* PublisherResolver.resolve (lines 340-388)                               *)

RESOLVE_BUDGET_GENERAL == 120
RESOLVE_BUDGET_NEXON == 80

\* cands[:25]
CANDIDATE_SCAN == 25

ARTICLE == "https://www.inven.co.kr/webzine/news/?news=1"

\* r.url after the redirects of the first GET: the article; the google link
\* itself (no redirect); a google consent page that names the article; a
\* board page; a site that is no target; nothing.
FinalUrls ==
    { ARTICLE, GA,
      "https://consent.google.com/m?continue=" \o ARTICLE,
      "https://www.inven.co.kr/board/maple/1",
      "https://example.com/a",
      "" }

\* The HTML the second GET reads: nothing; a link to the article; a google
\* redirect link that names the article; a board page before the article; a
\* keyword list page; two links, one with escaped bars, and their second.
Pages ==
    { "",
      "<a href=\"" \o ARTICLE \o "\">",
      "<a href=\"https://www.google.com/url?q=" \o ARTICLE \o "&amp;sa=U\">",
      "<a href='https://www.inven.co.kr/board/maple/1'> <a href='" \o ARTICLE \o "'>",
      "<a href=\"https://www.inven.co.kr/webzine/news/?keyword=x\">",
      "<a href=https://www.inven.co.kr/a%7C%7Chttps://www.inven.co.kr/b>",
      "<a href=\"https://www.inven.co.kr/b\">" }

\* What a GET may do: raise (ok = FALSE), or answer.
Step1Outcomes == {[ok |-> FALSE, url |-> ""]} \cup {[ok |-> TRUE, url |-> u] : u \in FinalUrls}
Step2Outcomes == {[ok |-> FALSE, text |-> ""]} \cup {[ok |-> TRUE, text |-> h] : h \in Pages}

\* lines 350-351
redirect_accepts(final_url) ==
    /\ final_url # ""
    /\ ~_is_google_url(final_url)
    /\ MentionsTargetSite(final_url)
    /\ is_valid_article_url(final_url)

RECURSIVE Unique(_)
\* list(dict.fromkeys(cands))
Unique(seq) ==
    IF seq = <<>> THEN <<>>
    ELSE LET front == Unique(SubSeq(seq, 1, Len(seq) - 1))
         IN  IF seq[Len(seq)] \in Range(front) THEN front
             ELSE Append(front, seq[Len(seq)])

RECURSIVE InsertByScore(_, _)
InsertByScore(sorted, u) ==
    IF sorted = <<>> THEN <<u>>
    ELSE IF _score_candidate(Head(sorted)) >= _score_candidate(u)
         THEN <<Head(sorted)>> \o InsertByScore(Tail(sorted), u)
         ELSE <<u>> \o sorted

RECURSIVE SortByScoreDesc(_)
\* cands.sort(key=_score_candidate, reverse=True): stable
SortByScoreDesc(cands) ==
    IF cands = <<>> THEN <<>>
    ELSE InsertByScore(SortByScoreDesc(SubSeq(cands, 1, Len(cands) - 1)),
                       cands[Len(cands)])

\* lines 372-382: the url picked from the page, or None
pick_from_html(text) ==
    LET cands == Take(SortByScoreDesc(Unique(_collect_target_urls(text))), CANDIDATE_SCAN)
        valid == SelectSeq(cands, is_valid_article_url)
    IN  IF valid = <<>> THEN None ELSE Head(valid)

\* redirect_accepts and pick_from_html over the answers of the model (they
\* read no state).
RedirectAccepted == [u \in FinalUrls |-> redirect_accepts(u)]
PickedFromHtml == [h \in Pages |-> pick_from_html(h)]

\* self.cache[key] = value
Store(c, key, value) == (key :> value) @@ c

\* The mutant never looks the link up (lines 343-344 dropped).
resolve_uncached(google_url, c, o1, o2) ==
    IF google_url = "" THEN [url |-> None, cache |-> c, gets |-> 0]
    ELSE IF o1.ok /\ RedirectAccepted[o1.url]
    THEN [url |-> o1.url, cache |-> Store(c, google_url, o1.url), gets |-> 1]
    ELSE IF o2.ok /\ PickedFromHtml[o2.text] # None
    THEN [url |-> PickedFromHtml[o2.text],
          cache |-> Store(c, google_url, PickedFromHtml[o2.text]), gets |-> 2]
    ELSE [url |-> None, cache |-> Store(c, google_url, None), gets |-> 2]

\* resolve(google_url) with the cache c, when the first GET does o1 and the
\* second does o2: the url returned (or None), the cache after the call and
\* the number of GETs issued.
resolve(google_url, c, o1, o2) ==
    IF google_url = "" THEN [url |-> None, cache |-> c, gets |-> 0]
    ELSE IF google_url \in DOMAIN c
    THEN [url |-> c[google_url], cache |-> c, gets |-> 0]
    ELSE IF o1.ok /\ RedirectAccepted[o1.url]
    THEN [url |-> o1.url, cache |-> Store(c, google_url, o1.url), gets |-> 1]
    ELSE IF o2.ok /\ PickedFromHtml[o2.text] # None
    THEN [url |-> PickedFromHtml[o2.text],
          cache |-> Store(c, google_url, PickedFromHtml[o2.text]), gets |-> 2]
    ELSE [url |-> None, cache |-> Store(c, google_url, None), gets |-> 2]

-----------------------------------------------------------------------------
(* finalize_items (lines 492-524) and its two calls in main (620-622)      *)

\* The window of the run whose candidates are finalized.
RunWindow ==
    compute_window_kst([day |-> MaxHolidaySpan + 4, sod |-> SEND_HOUR * 3600], FALSE, {})

BarTitle == "Nexon sinjak||https://www.inven.co.kr/a"

\* A candidate as fetch_track builds it (lines 467-477).
Candidate(trk, kw, title, google_link, pub_kst) ==
    [sid |-> _stable_id(title, google_link), track |-> trk, keyword |-> kw,
     press |-> "NEWS", title |-> title,
     google_link |-> google_link, link |-> None,
     published_dt |-> pub_kst, published |-> strftime(pub_kst),
     snippet |-> ""]

Candidates(trk) ==
    { Candidate(trk, PRIMARY_KEYWORDS[1], title, g, t) :
        title \in {"Nexon sinjak", BarTitle},
        g \in {GA, GB},
        t \in {RunWindow.start_dt, RunWindow.end_dt} }

\* What fetch_track may return with at most n candidates: no sid twice,
\* newest first.
RawLists(trk, n) ==
    { l \in UNION { [1..k -> Candidates(trk)] : k \in 0..n } :
        /\ \A i, j \in DOMAIN l : i # j => l[i].sid # l[j].sid
        /\ \A i, j \in DOMAIN l : i < j => l[i].published_dt >= l[j].published_dt }

ZeroFinalStats == [resolved_ok |-> 0, resolve_fail_drop |-> 0, non_article_url_drop |-> 0]

Budget(pass) == IF pass = "general" THEN RESOLVE_BUDGET_GENERAL ELSE RESOLVE_BUDGET_NEXON

\* Every url resolve may return.
ResolvedUrls ==
    { u \in FinalUrls : RedirectAccepted[u] }
    \cup { PickedFromHtml[h] : h \in { x \in Pages : PickedFromHtml[x] # None } }

\* is_valid_article_url over the urls resolve may return (it reads no state).
ValidArticleUrl == [u \in ResolvedUrls |-> is_valid_article_url(u)]

\* dedup[sid] = a: a new key goes last, a known key keeps its place and
\* takes the new value.
DedupPut(dedup, a) ==
    LET sid == _stable_id(a.title, a.link)
        hit == { i \in DOMAIN dedup : _stable_id(dedup[i].title, dedup[i].link) = sid }
    IN  IF hit = {} THEN Append(dedup, a)
        ELSE [i \in DOMAIN dedup |-> IF i \in hit THEN a ELSE dedup[i]]

RECURSIVE DedupValues(_)
\* lines 518-521, then dedup.values()
DedupValues(items) ==
    IF items = <<>> THEN <<>>
    ELSE DedupPut(DedupValues(SubSeq(items, 1, Len(items) - 1)), items[Len(items)])

\* The calls of resolve with google_url so far.
Calls(ret, google_url) == IF google_url \in DOMAIN ret THEN ret[google_url].calls ELSE 0

InitFinalize ==
    /\ IdleWindow /\ IdleFetch /\ IdleMain /\ IdleDigest
    /\ fin_pc = "general"
    /\ raw \in [general : RawLists("general", MaxGeneralRaw),
                nexon : RawLists("nexon", MaxNexonRaw)]
    /\ budget = Budget("general")
    /\ idx = 0 /\ used = 0
    /\ out = [general |-> <<>>, nexon |-> <<>>]
    /\ fin_stats = [general |-> ZeroFinalStats, nexon |-> ZeroFinalStats]
    /\ final = [general |-> <<>>, nexon |-> <<>>]
    /\ cache = [k \in {} |-> None]
    /\ requests = [g \in {GA, GB} |-> 0]
    /\ returned = [g \in {} |-> None]

\* One pass of the body of "for a in items" (lines 497-515); o1 and o2 are
\* what the two GETs of resolve do if they are issued.
FinalizeItem ==
    /\ fin_pc \in {"general", "nexon"} /\ idx < Len(raw[fin_pc])
    /\ idx' = idx + 1
    /\ IF used >= budget
       THEN /\ fin_stats' = [fin_stats EXCEPT ![fin_pc] = Bump(@, "resolve_fail_drop")]
            /\ UNCHANGED <<raw, out, used, cache, requests, returned>>
       ELSE \E a \in {raw[fin_pc][idx + 1]}, o1 \in Step1Outcomes, o2 \in Step2Outcomes :
            \E r \in {resolve(a.google_link, cache, o1, o2)} :
              /\ cache' = r.cache
              /\ requests' = [requests EXCEPT ![a.google_link] = @ + r.gets]
              /\ returned' = Store(returned, a.google_link,
                                   [value |-> r.url, calls |-> Calls(returned, a.google_link) + 1])
              /\ used' = used + 1
              /\ IF r.url = None \/ r.url = ""
                 THEN /\ fin_stats' = [fin_stats EXCEPT ![fin_pc] = Bump(@, "resolve_fail_drop")]
                      /\ UNCHANGED <<raw, out>>
                 ELSE IF ~ValidArticleUrl[r.url]
                 THEN /\ fin_stats' = [fin_stats EXCEPT ![fin_pc] = Bump(@, "non_article_url_drop")]
                      /\ UNCHANGED <<raw, out>>
                 ELSE /\ raw' = [raw EXCEPT ![fin_pc][idx + 1].link = r.url]
                      /\ fin_stats' = [fin_stats EXCEPT ![fin_pc] = Bump(@, "resolved_ok")]
                      /\ out' = [out EXCEPT ![fin_pc] = Append(@, [a EXCEPT !.link = r.url])]
    /\ UNCHANGED <<fin_pc, budget, final>>
    /\ UNCHANGED <<windowVars, fetchVars, mainVars, digestVars>>

\* lines 517-524: the pass returns; main goes on with the topic pass
\* (line 622) or is through with both.
ReturnFinal ==
    /\ fin_pc \in {"general", "nexon"} /\ idx = Len(raw[fin_pc])
    /\ final' = [final EXCEPT ![fin_pc] = SortByPublishedDesc(DedupValues(out[fin_pc]))]
    /\ IF fin_pc = "general"
       THEN fin_pc' = "nexon" /\ budget' = Budget("nexon") /\ idx' = 0 /\ used' = 0
       ELSE fin_pc' = "done" /\ UNCHANGED <<budget, idx, used>>
    /\ UNCHANGED <<raw, out, fin_stats, cache, requests, returned>>
    /\ UNCHANGED <<windowVars, fetchVars, mainVars, digestVars>>

NextFinalize == FinalizeItem \/ ReturnFinal

SpecFinalize == InitFinalize /\ [][NextFinalize]_vars

-----------------------------------------------------------------------------
(* main (lines 595-646) and send_to_slack (lines 580-590): the order of    *)
(* the calls and the requests they issue.                                  *)

WEBHOOK == "https://hooks.slack.com/services/T/B/X"

\* line 609
FALLBACK_BELOW == 10

\* not SLACK_WEBHOOK_URL (line 581): the variable is unset or empty
WebhookMissing == SLACK_WEBHOOK_URL = None \/ SLACK_WEBHOOK_URL = ""

\* fetch_track issues one GET for each keyword (line 425), whether it fails
\* or not.
FeedGets(kws) == Len(kws)

\* finalize_items calls resolve for at most budget items (line 498), and
\* resolve issues at most two GETs (lines 348, 359).
MaxResolveGets(n, b) == 2 * (IF n < b THEN n ELSE b)

InitMain ==
    /\ IdleWindow /\ IdleFetch /\ IdleFinalize /\ IdleDigest
    /\ m_pc = "window"
    /\ SLACK_WEBHOOK_URL \in {None, "", WEBHOOK}
    /\ net = [feed_gets |-> 0, resolve_gets |-> 0, posts |-> 0]
    /\ general_n = 0 /\ nexon_n = 0 /\ messages_n = 0 /\ sent = 0

\* lines 596-602
MainWindow ==
    /\ m_pc = "window"
    /\ m_pc' = "general"
    /\ UNCHANGED <<SLACK_WEBHOOK_URL, net, general_n, nexon_n, messages_n, sent>>
    /\ UNCHANGED <<windowVars, fetchVars, finVars, digestVars>>

\* lines 604-608
MainFetchGeneral ==
    /\ m_pc = "general"
    /\ \E n \in 0..MaxRawLen : general_n' = n
    /\ net' = [net EXCEPT !.feed_gets =
                  @ + FeedGets(Take(PRIMARY_KEYWORDS, KEYWORD_BATCH_PRIMARY))]
    /\ m_pc' = "fallback"
    /\ UNCHANGED <<SLACK_WEBHOOK_URL, nexon_n, messages_n, sent>>
    /\ UNCHANGED <<windowVars, fetchVars, finVars, digestVars>>

\* lines 609-613
MainFetchFallback ==
    /\ m_pc = "fallback"
    /\ IF general_n < FALLBACK_BELOW
       THEN /\ \E n \in 0..MaxRawLen : general_n' = n
            /\ net' = [net EXCEPT !.feed_gets =
                          @ + FeedGets(Take(PRIMARY_KEYWORDS, KEYWORD_BATCH_FALLBACK))]
       ELSE UNCHANGED <<general_n, net>>
    /\ m_pc' = "nexon"
    /\ UNCHANGED <<SLACK_WEBHOOK_URL, nexon_n, messages_n, sent>>
    /\ UNCHANGED <<windowVars, fetchVars, finVars, digestVars>>

\* lines 615-618
MainFetchNexon ==
    /\ m_pc = "nexon"
    /\ \E n \in 0..MaxRawLen : nexon_n' = n
    /\ net' = [net EXCEPT !.feed_gets = @ + FeedGets(PRIMARY_KEYWORDS)]
    /\ m_pc' = "finalize_general"
    /\ UNCHANGED <<SLACK_WEBHOOK_URL, general_n, messages_n, sent>>
    /\ UNCHANGED <<windowVars, fetchVars, finVars, digestVars>>

\* lines 620-621
MainFinalizeGeneral ==
    /\ m_pc = "finalize_general"
    /\ \E g \in 0..MaxResolveGets(general_n, RESOLVE_BUDGET_GENERAL) :
           net' = [net EXCEPT !.resolve_gets = @ + g]
    /\ m_pc' = "finalize_nexon"
    /\ UNCHANGED <<SLACK_WEBHOOK_URL, general_n, nexon_n, messages_n, sent>>
    /\ UNCHANGED <<windowVars, fetchVars, finVars, digestVars>>

\* line 622
MainFinalizeNexon ==
    /\ m_pc = "finalize_nexon"
    /\ \E g \in 0..MaxResolveGets(nexon_n, RESOLVE_BUDGET_NEXON) :
           net' = [net EXCEPT !.resolve_gets = @ + g]
    /\ m_pc' = "build"
    /\ UNCHANGED <<SLACK_WEBHOOK_URL, general_n, nexon_n, messages_n, sent>>
    /\ UNCHANGED <<windowVars, fetchVars, finVars, digestVars>>

\* lines 624-642: build_messages returns at least the message with the
\* header.
MainBuild ==
    /\ m_pc = "build"
    /\ \E n \in 1..MaxMessages : messages_n' = n
    /\ m_pc' = "send"
    /\ UNCHANGED <<SLACK_WEBHOOK_URL, net, general_n, nexon_n, sent>>
    /\ UNCHANGED <<windowVars, fetchVars, finVars, digestVars>>

\* lines 643-646 with send_to_slack: the RuntimeError of line 582, a POST
\* that raise_for_status rejects, or a POST that is delivered.
MainSend ==
    /\ m_pc = "send" /\ sent < messages_n
    /\ IF WebhookMissing
       THEN m_pc' = "raised_config" /\ UNCHANGED <<net, sent>>
       ELSE /\ net' = [net EXCEPT !.posts = @ + 1]
            /\ \/ m_pc' = "raised_http" /\ UNCHANGED sent
               \/ m_pc' = m_pc /\ sent' = sent + 1
    /\ UNCHANGED <<SLACK_WEBHOOK_URL, general_n, nexon_n, messages_n>>
    /\ UNCHANGED <<windowVars, fetchVars, finVars, digestVars>>

MainReturn ==
    /\ m_pc = "send" /\ sent = messages_n
    /\ m_pc' = "done"
    /\ UNCHANGED <<SLACK_WEBHOOK_URL, net, general_n, nexon_n, messages_n, sent>>
    /\ UNCHANGED <<windowVars, fetchVars, finVars, digestVars>>

NextMain ==
    \/ MainWindow \/ MainFetchGeneral \/ MainFetchFallback \/ MainFetchNexon
    \/ MainFinalizeGeneral \/ MainFinalizeNexon \/ MainBuild \/ MainSend
    \/ MainReturn

SpecMain == InitMain /\ [][NextMain]_vars

-----------------------------------------------------------------------------
(* contains_nexon, nexon_score (lines 162-174) and build_messages (lines   *)
(* 529-578).  Each character of the fixed texts that is not ASCII is       *)
(* written as one ASCII character, so that every length is the source's.   *)

GENERAL_SEND_LIMIT == 50
NEXON_SEND_LIMIT == 5
SLACK_TEXT_LIMIT == 3500

\* M&A, 인수, 합병, 투자, 지분, 소송, 규제, 매출, 실적, 영업이익, 순이익, 출시,
\* 업데이트, 리스크, 악재, 호재
NEXON_IMPORTANCE ==
    << <<"M&A", 5>>, <<"insu", 5>>, <<"hapbyeong", 5>>,
       <<"tuja", 4>>, <<"jibun", 4>>,
       <<"sosong", 5>>, <<"gyuje", 4>>,
       <<"maechul", 4>>, <<"siljeok", 4>>, <<"yeongeobiik", 4>>, <<"sunigik", 4>>,
       <<"chulsi", 3>>, <<"eopdeiteu", 3>>,
       <<"riseukeu", 3>>, <<"akjae", 3>>, <<"hojae", 3>> >>

\* The mutant lets every topic candidate through.
contains_nexon_any(title, snippet) == TRUE

contains_nexon(title, snippet) ==
    LET blob == Lower(title \o " " \o snippet)
    IN  \E i \in DOMAIN NEXON_TERMS : Contains(blob, Lower(NEXON_TERMS[i]))

RECURSIVE ImportanceFrom(_, _)
\* the weights of NEXON_IMPORTANCE[i..] found in blob
ImportanceFrom(blob, i) ==
    IF i > Len(NEXON_IMPORTANCE) THEN 0
    ELSE (IF Contains(blob, Lower(NEXON_IMPORTANCE[i][1]))
          THEN NEXON_IMPORTANCE[i][2] ELSE 0)
         + ImportanceFrom(blob, i + 1)

nexon_score(a) ==
    ImportanceFrom(Lower(a.title \o " " \o a.snippet), 1)
    + (IF contains_nexon(a.title, a.snippet) THEN 2 ELSE 0)

\* lines 532-544
Header(lbl, st) ==
    "## @ JY GIEG NS BRP\n- BW: " \o lbl \o "\n"
    \o "- general: feeds=" \o Str(st.general_rss.feeds_called)
    \o ", seen=" \o Str(st.general_rss.entries_seen) \o ", "
    \o "added=" \o Str(st.general_rss.added)
    \o ", hint_drop=" \o Str(st.general_rss.hint_drop) \o ", "
    \o "window_drop=" \o Str(st.general_rss.window_drop)
    \o ", resolved_ok=" \o Str(st.general_final.resolved_ok) \o ", "
    \o "resolve_fail_drop=" \o Str(st.general_final.resolve_fail_drop)
    \o ", url_drop=" \o Str(st.general_final.non_article_url_drop) \o "\n"
    \o "- nexon: feeds=" \o Str(st.nexon_rss.feeds_called)
    \o ", seen=" \o Str(st.nexon_rss.entries_seen) \o ", "
    \o "added=" \o Str(st.nexon_rss.added)
    \o ", hint_drop=" \o Str(st.nexon_rss.hint_drop) \o ", "
    \o "window_drop=" \o Str(st.nexon_rss.window_drop)
    \o ", resolved_ok=" \o Str(st.nexon_final.resolved_ok) \o ", "
    \o "resolve_fail_drop=" \o Str(st.nexon_final.resolve_fail_drop)
    \o ", url_drop=" \o Str(st.nexon_final.non_article_url_drop) \o "\n\n"

\* lines 546-548
fmt(a) ==
    LET sn == IF a.snippet # "" THEN "\n    - " \o a.snippet ELSE ""
    IN  "> *[" \o a.press \o "]* <" \o a.link \o "|" \o a.title \o "> ("
        \o a.published \o ")" \o sn \o "\n"

RECURSIVE FmtBetween(_, _, _)
\* fmt of items[lo..hi], one after the other
FmtBetween(items, lo, hi) ==
    IF lo > hi THEN ""
    ELSE IF lo = hi THEN fmt(items[lo])
    ELSE LET mid == (lo + hi) \div 2
         IN  FmtBetween(items, lo, mid) \o FmtBetween(items, mid + 1, hi)

FmtAll(items) == FmtBetween(items, 1, Len(items))

\* lines 550-565
Body(gen, shown) ==
    "### @ JY GIEG NS\n"
    \o (IF gen = <<>> THEN "- HD BWES NSG ESND.\n"
        ELSE FmtAll(Take(gen, GENERAL_SEND_LIMIT)))
    \o "\n---\n### @ NS GR JY NS (Top 5)\n"
    \o (IF shown = <<>> THEN "- HD BWES NS GR JY NSR CJ MHSND.\n"
        ELSE FmtAll(shown))

\* A line of str.splitlines ends with the character at i: a line feed, a
\* form feed, or a carriage return that no line feed follows.  (The other
\* line boundaries of Python are not ASCII.)
EndsLineAt(s, i) ==
    \/ Char(s, i) \in {"\n", "\f"}
    \/ Char(s, i) = "\r" /\ (i = Len(s) \/ Char(s, i + 1) # "\n")

RECURSIVE LineEndsBetween(_, _, _)
\* the ends of the lines of s in lo..hi, ascending
LineEndsBetween(s, lo, hi) ==
    IF lo > hi THEN <<>>
    ELSE IF lo = hi THEN (IF EndsLineAt(s, lo) THEN <<lo>> ELSE <<>>)
    ELSE LET mid == (lo + hi) \div 2
         IN  LineEndsBetween(s, lo, mid) \o LineEndsBetween(s, mid + 1, hi)

\* s.splitlines(True)
splitlines(s) ==
    LET closed == LineEndsBetween(s, 1, Len(s))
        ends == IF s # "" /\ (closed = <<>> \/ closed[Len(closed)] < Len(s))
                THEN Append(closed, Len(s)) ELSE closed
    IN  [k \in 1..Len(ends) |->
            Slice(s, (IF k = 1 THEN 1 ELSE ends[k - 1] + 1), ends[k])]

\* The mutant forgets the line that does not fit the chunk.
AddLineDroppingOverflow(msgs, chk, line) ==
    IF Len(chk) + Len(line) > SLACK_TEXT_LIMIT
    THEN [messages |-> Append(msgs, chk), chunk |-> ""]
    ELSE [messages |-> msgs, chunk |-> chk \o line]

\* lines 572-575: the body of "for line in full.splitlines(True)"
AddLine(msgs, chk, line) ==
    IF Len(chk) + Len(line) > SLACK_TEXT_LIMIT
    THEN [messages |-> Append(msgs, chk), chunk |-> line]
    ELSE [messages |-> msgs, chunk |-> chk \o line]

\* An article as finalize_items returns it.
Article(trk, title, snippet, link, minutes_before_end) ==
    [Candidate(trk, PRIMARY_KEYWORDS[1], title, GA, RunWindow.end_dt - 60 * minutes_before_end)
        EXCEPT !.link = link, !.snippet = snippet]

NEWS_URL == "https://www.inven.co.kr/webzine/news/?news="

\* The k-th general article; every other one has a snippet.
GeneralItem(k) ==
    Article("general", "Game news " \o Str(k),
            IF k % 2 = 0 THEN "Game news of the day, number " \o Str(k) ELSE "",
            NEWS_URL \o Str(k), k)

\* An article whose link alone is longer than a message may be, and one
\* whose link holds a line break (unquote of %0D%0A).
LongLinkItem ==
    Article("general", "Game news", "", NEWS_URL \o "1&ref=" \o Rep("a", SLACK_TEXT_LIMIT), 2)
LineBreakLinkItem ==
    Article("general", "Game news", "", NEWS_URL \o "2&ref=a\r\nb", 2)

SmallGeneralLists ==
    { [k \in 1..n |-> GeneralItem(k)] : n \in 0..2 }
LargeGeneralLists ==
    { [k \in 1..n |-> GeneralItem(k)] : n \in {GENERAL_SEND_LIMIT, MaxGeneral} }
    \cup { <<GeneralItem(1), LongLinkItem, GeneralItem(3)>>,
           <<GeneralItem(1), LineBreakLinkItem>> }

\* Topic candidates, newest first: with the name in the title, in the
\* snippet only, in capitals, in Korean, or nowhere.
NexonPool ==
    << Article("nexon", "Nexon sinjak chulsi", "", NEWS_URL \o "101", 1),
       Article("nexon", "Game sinjak", "Sinjak sosik", NEWS_URL \o "102", 2),
       Article("nexon", "NEXON insu hapbyeong", "", NEWS_URL \o "103", 3),
       Article("nexon", "Game eopdeiteu", "neopeul gaebal", NEWS_URL \o "104", 4),
       Article("nexon", "nekseun siljeok", "", NEWS_URL \o "105", 5),
       Article("nexon", "Sinjak sosong", "", NEWS_URL \o "106", 6),
       Article("nexon", "Nexon tuja", "", NEWS_URL \o "107", 7),
       Article("nexon", "nekseungeimjeu maechul", "Nexon Games", NEWS_URL \o "108", 8) >>

\* contains_nexon and nexon_score over the topic candidates of the model
\* (they read no state).
Verified == [a \in Range(NexonPool) |-> contains_nexon(a.title, a.snippet)]
Score == [a \in Range(NexonPool) |-> nexon_score(a)]

\* The mutant orders the topic candidates by publish time alone.
RankedByTimeOnly(a, b) == a.published_dt >= b.published_dt

\* The key of line 559.
RankedBefore(a, b) ==
    \/ Score[a] > Score[b]
    \/ Score[a] = Score[b] /\ a.published_dt >= b.published_dt

RECURSIVE InsertRanked(_, _)
InsertRanked(sorted, x) ==
    IF sorted = <<>> THEN <<x>>
    ELSE IF RankedBefore(Head(sorted), x)
         THEN <<Head(sorted)>> \o InsertRanked(Tail(sorted), x)
         ELSE <<x>> \o sorted

RECURSIVE SortRanked(_)
\* sorted(items, key=(nexon_score, published_dt), reverse=True): stable
SortRanked(items) ==
    IF items = <<>> THEN <<>>
    ELSE InsertRanked(SortRanked(SubSeq(items, 1, Len(items) - 1)), items[Len(items)])

\* lines 558-559 and the cut of line 564
NexonShown(nxn) ==
    LET nexon_true == SelectSeq(nxn, LAMBDA a : Verified[a])
    IN  Take(SortRanked(nexon_true), NEXON_SEND_LIMIT)

RECURSIVE Pick(_, _, _)
\* the items of seq at the indices in S, in their order
Pick(seq, S, i) ==
    IF i > Len(seq) THEN <<>>
    ELSE (IF i \in S THEN <<seq[i]>> ELSE <<>>) \o Pick(seq, S, i + 1)

NexonLists ==
    { Pick(NexonPool, S, 1) :
        S \in { T \in SUBSET DOMAIN NexonPool : Cardinality(T) <= MaxNexon } }

BusyRss == [feeds_called |-> 17, entries_seen |-> 510, hint_drop |-> 12,
            no_date_drop |-> 3, too_old_drop |-> 1, window_drop |-> 240,
            added |-> 254]
BusyFinal == [resolved_ok |-> 100, resolve_fail_drop |-> 134, non_article_url_drop |-> 20]
StatsChoices ==
    { [general_rss |-> ZeroStats, nexon_rss |-> ZeroStats,
       general_final |-> ZeroFinalStats, nexon_final |-> ZeroFinalStats],
      [general_rss |-> BusyRss, nexon_rss |-> BusyRss,
       general_final |-> BusyFinal, nexon_final |-> BusyFinal] }

InitDigest ==
    /\ IdleWindow /\ IdleFetch /\ IdleFinalize /\ IdleMain
    /\ bm_pc = "start"
    /\ label = window_label(RunWindow.start_dt, RunWindow.end_dt)
    /\ bm_stats \in StatsChoices
    /\ \/ general \in SmallGeneralLists /\ nexon \in NexonLists
       \/ /\ general \in LargeGeneralLists
          /\ nexon \in {<<>>, Take(NexonPool, MaxNexon)}
    /\ nexon_emitted = <<>> /\ full = "" /\ lines = <<>> /\ li = 0
    /\ chunk = "" /\ messages = <<>>

\* lines 532-570
BuildFull ==
    /\ bm_pc = "start"
    /\ LET shown == NexonShown(nexon)
           text == Header(label, bm_stats) \o Body(general, shown)
       IN  /\ nexon_emitted' = shown
           /\ full' = text
           /\ lines' = splitlines(text)
    /\ li' = 0 /\ chunk' = "" /\ messages' = <<>>
    /\ bm_pc' = "chunk"
    /\ UNCHANGED <<label, general, nexon, bm_stats>>
    /\ UNCHANGED <<windowVars, fetchVars, finVars, mainVars>>

\* lines 571-575
ChunkLine ==
    /\ bm_pc = "chunk" /\ li < Len(lines)
    /\ LET r == AddLine(messages, chunk, lines[li + 1])
       IN  messages' = r.messages /\ chunk' = r.chunk
    /\ li' = li + 1
    /\ UNCHANGED <<bm_pc, label, general, nexon, bm_stats, nexon_emitted, full, lines>>
    /\ UNCHANGED <<windowVars, fetchVars, finVars, mainVars>>

\* lines 576-578
ReturnMessages ==
    /\ bm_pc = "chunk" /\ li = Len(lines)
    /\ messages' = IF Strip(chunk) # "" THEN Append(messages, chunk) ELSE messages
    /\ bm_pc' = "done"
    /\ UNCHANGED <<label, general, nexon, bm_stats, nexon_emitted, full, lines, li, chunk>>
    /\ UNCHANGED <<windowVars, fetchVars, finVars, mainVars>>

NextDigest == BuildFull \/ ChunkLine \/ ReturnMessages

SpecDigest == InitDigest /\ [][NextDigest]_vars

-----------------------------------------------------------------------------
\* An entry with no parseable timestamp in published, updated,
\* published_parsed or updated_parsed.
NoParseableTimestamp(en) ==
    /\ en.published.kind \in {"absent", "garbage"}
    /\ en.updated.kind \in {"absent", "garbage"}
    /\ en.published_parsed.kind \in {"absent", "invalid"}
    /\ en.updated_parsed.kind \in {"absent", "invalid"}

\* The step is the loop body on an entry without a parseable timestamp.
BodyOnUndated == ft_pc = "body" /\ ft_pc' # "body" /\ NoParseableTimestamp(e)

\* Every candidate (kept in the dict, and returned) has a publish time
\* inside the window, both ends included.
CandidatesInWindow ==
    \A a \in Range(found) \cup Range(ft_items) :
        /\ a.published_dt # Unparsed
        /\ window.start_dt <= a.published_dt
        /\ a.published_dt <= window.end_dt

\* The entry reaches the date test of line 449: it is well formed, has a
\* title and a link, and carries no non-article hint.
ReachesDateTest(en) ==
    /\ ~en.text.malformed
    /\ _clean_text(en.text.title) # ""
    /\ _clean_text(en.text.link) # ""
    /\ ~_looks_like_non_article(
            _truncate(_clean_text(en.text.title), TITLE_MAX),
            _truncate(_clean_text(_strip_html(
                IF en.text.summary # "" THEN en.text.summary
                ELSE en.text.description)), SNIPPET_MAX))

(* C3, as stated: every candidate returned by fetch_track has a parsed     *)
(* publish time t with start_dt <= t <= end_dt; an entry without a         *)
(* parseable timestamp is never returned and is counted in no_date_drop.   *)
C3_UndatedAlwaysCounted ==
    /\ []CandidatesInWindow
    /\ [][BodyOnUndated =>
            /\ found' = found
            /\ ft_stats'.no_date_drop = ft_stats.no_date_drop + 1]_vars

(* C3, amended: every candidate returned by fetch_track has a parsed       *)
(* publish time t with start_dt <= t <= end_dt; an entry without a         *)
(* parseable timestamp is never returned; it is counted in no_date_drop    *)
(* when it reaches the date test (well formed, title and link not empty,   *)
(* no non-article hint), and otherwise it is dropped before the date test  *)
(* and no_date_drop is left as it is.                                      *)
C3_UndatedNeverReturned ==
    /\ []CandidatesInWindow
    /\ [][BodyOnUndated =>
            /\ found' = found
            /\ ft_stats'.no_date_drop =
                   ft_stats.no_date_drop + (IF ReachesDateTest(e) THEN 1 ELSE 0)]_vars

\* An undated entry with a hint has just been dropped uncounted, after an
\* undated one was counted and a candidate was accepted.
C3_Witness ==
    /\ ft_pc = "entries" /\ pos > 0
    /\ NoParseableTimestamp(e) /\ ~ReachesDateTest(e)
    /\ ft_stats.no_date_drop = 1 /\ ft_stats.hint_drop = 1
    /\ found # <<>>

(* C6: a failure while one entry is processed is contained to that entry:  *)
(* the remaining entries of the feed are still processed (when the loop is *)
(* back at the keywords after a feed that arrived, all its entries were    *)
(* taken), and fetch_track returns only after the last keyword.  A feed    *)
(* query that fails adds nothing and the keyword loop goes on.             *)
C6_FailureContainedToEntry ==
    /\ (ft_pc \in {"kw", "done"} /\ feed_ok) => pos = feed_len
    /\ ft_pc = "done" => kw_i = Len(keywords)

-----------------------------------------------------------------------------
(* C1, C7: finalize_items                                                  *)

Passes == {"general", "nexon"}

\* The call of finalize_items for pass p has returned.
Returned(p) == IF p = "general" THEN fin_pc \in {"nexon", "done"} ELSE fin_pc = "done"

IsNullLink(link) == link = None \/ link = ""

\* C1: every item in the lists returned by finalize_items has a non-null link
\* whose host is no Google host, whatever the feed entries were and whatever
\* the network steps of the resolver did.
C1_NoAggregatorLink ==
    \A p \in Passes : Returned(p) =>
        \A i \in DOMAIN final[p] :
            /\ ~IsNullLink(final[p][i].link)
            /\ ~_is_google_url(final[p][i].link)

SameIdentity(a, b) == a.title = b.title /\ a.link = b.link

\* C7: in the list returned by finalize_items no two items share the same
\* (title, resolved link), and the candidates that have one title and resolve
\* to one link collapse to exactly one emitted item.
C7_OneItemPerIdentity ==
    \A p \in Passes : Returned(p) =>
        /\ \A i, j \in DOMAIN final[p] :
               SameIdentity(final[p][i], final[p][j]) => i = j
        /\ \A i \in DOMAIN out[p] :
               Cardinality({ j \in DOMAIN final[p] :
                               SameIdentity(final[p][j], out[p][i]) }) = 1

\* C7, the first half: no two items of a returned list share the same
\* (title, resolved link).
C7_NoTwoShareIdentity ==
    \A p \in Passes : Returned(p) =>
        \A i, j \in DOMAIN final[p] :
            SameIdentity(final[p][i], final[p][j]) => i = j

-----------------------------------------------------------------------------
(* C2: main without the webhook                                            *)

\* C2: when SLACK_WEBHOOK_URL is absent, main raises the configuration error
\* before any network activity: no feed query and no link-resolution request
\* is ever issued in such a run.
C2_RaisesBeforeNetwork ==
    (m_pc # "idle" /\ WebhookMissing) =>
        net.feed_gets = 0 /\ net.resolve_gets = 0

-----------------------------------------------------------------------------
(* C8, C9, C10: build_messages                                             *)

\* An entity-name variant occurs, whatever the case, in the title or in the
\* snippet of a.
HasEntityVariant(a) ==
    \E i \in DOMAIN NEXON_TERMS :
        \/ Contains(Lower(a.title), Lower(NEXON_TERMS[i]))
        \/ Contains(Lower(a.snippet), Lower(NEXON_TERMS[i]))

TopicSection == "### @ NS GR JY NS (Top 5)\n"

\* C8: every article of the topic subsection has an entity-name variant in
\* its title or snippet, and a topic candidate without one is never in the
\* subsection; the subsection of the digest is made of these articles alone.
C8_EntityGate ==
    bm_pc = "done" =>
        /\ \A i \in DOMAIN nexon_emitted : HasEntityVariant(nexon_emitted[i])
        /\ \A i \in DOMAIN nexon :
               ~HasEntityVariant(nexon[i]) => nexon[i] \notin Range(nexon_emitted)
        /\ nexon_emitted # <<>> => EndsWith(full, TopicSection \o FmtAll(nexon_emitted))

C8_Witness ==
    /\ bm_pc = "done"
    /\ \E i \in DOMAIN nexon : ~HasEntityVariant(nexon[i])
    /\ \E i \in DOMAIN nexon_emitted :
           \A j \in DOMAIN NEXON_TERMS :
               ~Contains(Lower(nexon_emitted[i].title), Lower(NEXON_TERMS[j]))

\* C9: every message returned by build_messages is non-empty and at most
\* SLACK_TEXT_LIMIT characters long.
C9_MessagesWithinLimit ==
    bm_pc = "done" =>
        \A k \in DOMAIN messages :
            Len(messages[k]) > 0 /\ Len(messages[k]) <= SLACK_TEXT_LIMIT

\* C9, the half that holds: no message is empty, and no message is longer
\* than SLACK_TEXT_LIMIT unless it is one line of the digest.
C9_LongMessageIsOneLine ==
    bm_pc = "done" =>
        \A k \in DOMAIN messages :
            /\ Len(messages[k]) > 0
            /\ Len(messages[k]) > SLACK_TEXT_LIMIT => messages[k] \in Range(lines)

RECURSIVE Concat(_)
Concat(seq) == IF seq = <<>> THEN "" ELSE Head(seq) \o Concat(Tail(seq))

RECURSIVE TotalLen(_)
TotalLen(seq) == IF seq = <<>> THEN 0 ELSE Len(Head(seq)) + TotalLen(Tail(seq))

\* The offsets in s at which a line of s ends.
LineBoundaries(s) == Range(LineEndsBetween(s, 1, Len(s))) \cup {Len(s)}

\* C10: the messages, concatenated in order, are the full digest, and every
\* message ends where a line of the digest ends.
C10_ChunksReproduceDigest ==
    bm_pc = "done" =>
        /\ Concat(messages) = full
        /\ \A k \in DOMAIN messages :
               TotalLen(SubSeq(messages, 1, k)) \in LineBoundaries(full)

C10_Witness ==
    /\ bm_pc = "done"
    /\ Len(messages) >= 2
    /\ \E k \in DOMAIN lines : Strip(lines[k]) = ""

-----------------------------------------------------------------------------
(* PublisherResolver.resolve is memoized for the run (lines 338-344, 353,  *)
(* 381, 387; one resolver for both passes, lines 620-622).                 *)

\* C11: once resolve has returned for a raw link, a url or None, every
\* later call with that link, from the general pass or the topic pass,
\* returns the same value and issues no further GET; a failed resolution
\* stays None and is not tried again.
C11_ResolveMemoized ==
    [][\A g \in DOMAIN returned :
           /\ g \in DOMAIN returned'
           /\ returned'[g].value = returned[g].value
           /\ requests'[g] = requests[g]]_vars

\* The topic pass has just called resolve with a link whose resolution had
\* failed before, after two GETs.
C11_Witness ==
    /\ fin_pc = "nexon" /\ idx >= 1 /\ used >= 1
    /\ \E g \in DOMAIN returned :
           /\ raw.nexon[idx].google_link = g
           /\ returned[g].calls >= 2
           /\ returned[g].value = None
           /\ requests[g] = 2

-----------------------------------------------------------------------------
(* The ranking and the cut of the topic subsection (lines 558-565).        *)

\* The entity-verified candidates build_messages was given.
VerifiedCandidates == { a \in Range(nexon) : HasEntityVariant(a) }

\* (score, publish time) of a is strictly higher than that of b.
KeyHigher(a, b) ==
    \/ nexon_score(a) > nexon_score(b)
    \/ nexon_score(a) = nexon_score(b) /\ a.published_dt > b.published_dt

\* C12: the topic subsection lists at most NEXON_SEND_LIMIT articles, the
\* first ones of the entity-verified candidates by score descending, then
\* publish time descending: as many as there are up to the limit, none
\* twice, no omitted verified candidate with a strictly higher (score,
\* publish time) than a listed one, and the listed ones in non-increasing
\* (score, publish time) order.
C12_TopRanked ==
    bm_pc = "done" =>
        /\ Len(nexon_emitted) <= NEXON_SEND_LIMIT
        /\ Range(nexon_emitted) \subseteq VerifiedCandidates
        /\ Cardinality(Range(nexon_emitted)) = Len(nexon_emitted)
        /\ Len(nexon_emitted) = Min({NEXON_SEND_LIMIT, Cardinality(VerifiedCandidates)})
        /\ \A a \in VerifiedCandidates \ Range(nexon_emitted) :
               \A i \in DOMAIN nexon_emitted : ~KeyHigher(a, nexon_emitted[i])
        /\ \A i, j \in DOMAIN nexon_emitted :
               i < j => ~KeyHigher(nexon_emitted[j], nexon_emitted[i])

\* More verified candidates than the limit, two listed ones with the same
\* score, and a listed one that an older candidate with a higher score
\* precedes.
C12_Witness ==
    /\ bm_pc = "done"
    /\ Cardinality(VerifiedCandidates) > NEXON_SEND_LIMIT
    /\ Len(nexon_emitted) = NEXON_SEND_LIMIT
    /\ \E i, j \in DOMAIN nexon_emitted :
           /\ i < j
           /\ nexon_score(nexon_emitted[i]) = nexon_score(nexon_emitted[j])
    /\ \E i, j \in DOMAIN nexon_emitted :
           /\ i < j
           /\ nexon_emitted[i].published_dt < nexon_emitted[j].published_dt

====
